---------------------------- MODULE Spec2Model ----------------------------
(* A model of the countries-to-XML generators:                              *)
(*   src/src/improved_xml_generator.py  (ImprovedCountryXMLGenerator)       *)
(*   src/src/simple_xml_generator.py    (CountryXMLGenerator)               *)
(*   src/src/automated_generator.py     (AutomatedCountryGenerator, main)   *)
(*                                                                          *)
(* Python values are modelled as follows.                                   *)
(*   str   a sequence of one-character strings ("" is << >>)                *)
(*   dict  a sequence of <<key, value>> pairs in insertion order, with      *)
(*         distinct keys (Python dicts iterate in insertion order)          *)
(*   list  a sequence                                                       *)
(* Structural keys ("name", "official", ...) and language codes are TLA+    *)
(* strings; currency codes are Python strings that reach the document, so   *)
(* they are character sequences like every other field value.               *)
EXTENDS Naturals, Sequences, FiniteSets, TLC

VARIABLES
    \* ---- the extraction development (ExtractSpec) ----
    epc,            \* position: "input", "extracted", "rendered", "simple", "demo"
    rec,            \* the CountryRecord handed to extract_xml_data
    xml_data,       \* what extract_xml_data returned
    block,          \* the lines generate_formatted_xml emits for the record
    \* ---- one run of the command line tool (Spec) ----
    pc,             \* position of the run
    test_only,      \* args.test_only
    countries,      \* the list of country names of the run
    output_file,    \* args.output, a path [dir, base]
    fs,             \* the file system: [dirs, files, writable]
    fs0,            \* the file system when the run started
    net,            \* the HTTP request in flight, or NoRequest
    resp,           \* the outcome of the last HTTP request
    probe_ok,       \* what test_api_connectivity returned
    i,              \* index of the name fetch_country_data is at
    requests,       \* the names looked up so far, in order of issue
    responses,      \* the outcome of each lookup, in order of issue
    countries_data, \* fetch_country_data's accumulator
    gen,            \* what generate_countries_xml did: [ret, exc, wrote]
    result,         \* generate_xml_with_validation's result dict
    exit_code,      \* the status handed to sys.exit, or NoExit
    probes          \* the number of connectivity probes sent

evars == <<epc, rec, xml_data, block>>
rvars == <<pc, test_only, countries, output_file, fs, fs0, net, resp, probe_ok,
           i, requests, responses, countries_data, gen, result, exit_code,
           probes>>
vars  == <<evars, rvars>>

-----------------------------------------------------------------------------
(* Python dict and str primitives                                           *)

EmptyDict == << >>
EmptyStr  == << >>

\* `k in d`
HasKey(d, k) == \E n \in 1..Len(d) : d[n][1] = k

\* d[k]; a missing key raises KeyError
KeyError == <<"KeyError">>
Subscript(d, k) ==
    IF HasKey(d, k) THEN d[CHOOSE n \in 1..Len(d) : d[n][1] = k][2] ELSE KeyError

\* d.get(k, default)
Get(d, k, default) == IF HasKey(d, k) THEN Subscript(d, k) ELSE default

\* list(d.keys())
Keys(d) == [n \in 1..Len(d) |-> d[n][1]]

\* truthiness of a str, list or dict: non-empty
Truthy(v) == Len(v) > 0

-----------------------------------------------------------------------------
(* extract_xml_data                                                         *)

\* improved_xml_generator.py:64
language_priority == <<"hin", "jpn", "deu", "fra", "spa", "ara", "zho">>

\* The for/break loop of improved_xml_generator.py:66-69: the value of
\* local_name when the loop ends ("" when no priority code is a key).
PriorityScan(native_names) ==
    LET hits == {p \in 1..Len(language_priority) :
                    HasKey(native_names, language_priority[p])}
    IN  IF hits = {}
        THEN EmptyStr
        ELSE LET p == CHOOSE q \in hits : \A r \in hits : q <= r
             IN  Get(Subscript(native_names, language_priority[p]),
                     "official", EmptyStr)

\* Mutant: the fallback reads the LAST entry of the mapping.
ImprovedLocalNameLast(native_names) ==
    LET local_name == PriorityScan(native_names)
    IN  IF ~Truthy(local_name) /\ Truthy(native_names)
        THEN Get(Subscript(native_names, Keys(native_names)[Len(native_names)]),
                 "official", EmptyStr)
        ELSE local_name

\* improved_xml_generator.py:59-74
ImprovedLocalName(native_names) ==
    LET local_name == PriorityScan(native_names)
    IN  IF ~Truthy(local_name) /\ Truthy(native_names)
        THEN Get(Subscript(native_names, Keys(native_names)[1]),
                 "official", EmptyStr)
        ELSE local_name

\* Mutant: the Japanese entry is looked for before the Hindi one.
SimpleLocalNameJpnFirst(native_names) ==
    IF HasKey(native_names, "jpn")
    THEN Get(Subscript(native_names, "jpn"), "official", EmptyStr)
    ELSE IF HasKey(native_names, "hin")
    THEN Get(Subscript(native_names, "hin"), "official", EmptyStr)
    ELSE IF Truthy(native_names)
    THEN Get(Subscript(native_names, Keys(native_names)[1]), "official", EmptyStr)
    ELSE EmptyStr

\* simple_xml_generator.py:82-92
SimpleLocalName(native_names) ==
    IF HasKey(native_names, "hin")
    THEN Get(Subscript(native_names, "hin"), "official", EmptyStr)
    ELSE IF HasKey(native_names, "jpn")
    THEN Get(Subscript(native_names, "jpn"), "official", EmptyStr)
    ELSE IF Truthy(native_names)
    THEN Get(Subscript(native_names, Keys(native_names)[1]), "official", EmptyStr)
    ELSE EmptyStr

\* Mutant: the currency block reads the LAST entry of the mapping.
CurrencyInfoLast(currencies) ==
    IF Truthy(currencies)
    THEN LET currency_code == Keys(currencies)[Len(currencies)]
             currency_data == Subscript(currencies, currency_code)
         IN  [code   |-> currency_code,
              name   |-> Get(currency_data, "name", EmptyStr),
              symbol |-> Get(currency_data, "symbol", EmptyStr)]
    ELSE [code |-> EmptyStr, name |-> EmptyStr, symbol |-> EmptyStr]

\* improved_xml_generator.py:76-85 and simple_xml_generator.py:94-108
CurrencyInfo(currencies) ==
    IF Truthy(currencies)
    THEN LET currency_code == Keys(currencies)[1]
             currency_data == Subscript(currencies, currency_code)
         IN  [code   |-> currency_code,
              name   |-> Get(currency_data, "name", EmptyStr),
              symbol |-> Get(currency_data, "symbol", EmptyStr)]
    ELSE [code |-> EmptyStr, name |-> EmptyStr, symbol |-> EmptyStr]

\* Mutant: the names are read with name_data[...] instead of .get(...).
NameFieldSubscript(name_data, k) == Subscript(name_data, k)

\* name_data.get("official", "") / name_data.get("common", "")
NameField(name_data, k) == Get(name_data, k, EmptyStr)

\* The dict both extract_xml_data methods return; raised is TRUE when a
\* subscript inside the extraction hit a missing key.
ExtractedCountry(country_data, name_data, local_name, currency) ==
    LET out == [code          |-> Get(country_data, "cca2", EmptyStr),
                original_name |-> NameField(name_data, "official"),
                common_name   |-> NameField(name_data, "common"),
                local_name    |-> local_name,
                currency      |-> currency]
    IN  [raised |-> \/ out.original_name = KeyError
                    \/ out.common_name = KeyError
                    \/ out.local_name = KeyError
                    \/ out.currency.name = KeyError
                    \/ out.currency.symbol = KeyError,
         value  |-> out]

\* ImprovedCountryXMLGenerator.extract_xml_data
ImprovedExtract(country_data) ==
    LET name_data    == Get(country_data, "name", EmptyDict)
        currencies   == Get(country_data, "currencies", EmptyDict)
        native_names == Get(name_data, "nativeName", EmptyDict)
    IN  ExtractedCountry(country_data, name_data,
                         ImprovedLocalName(native_names),
                         CurrencyInfo(currencies))

\* CountryXMLGenerator.extract_xml_data
SimpleExtract(country_data) ==
    LET name_data    == Get(country_data, "name", EmptyDict)
        currencies   == Get(country_data, "currencies", EmptyDict)
        native_names == Get(name_data, "nativeName", EmptyDict)
    IN  ExtractedCountry(country_data, name_data,
                         SimpleLocalName(native_names),
                         CurrencyInfo(currencies))

\* examples/test_api.py:95-102
DemoLocalName(native_names) ==
    IF HasKey(native_names, "hin")
    THEN Get(Subscript(native_names, "hin"), "official", EmptyStr)
    ELSE IF Truthy(native_names)
    THEN Get(Subscript(native_names, Keys(native_names)[1]), "official", EmptyStr)
    ELSE EmptyStr

\* examples/test_api.py:104-113: currency_info is a dict, empty when the
\* record has no currency
DemoCurrencyInfo(currencies) ==
    IF Truthy(currencies)
    THEN LET currency_code == Keys(currencies)[1]
             currency_data == Subscript(currencies, currency_code)
         IN  << <<"code", currency_code>>,
                <<"name", Get(currency_data, "name", EmptyStr)>>,
                <<"symbol", Get(currency_data, "symbol", EmptyStr)>> >>
    ELSE EmptyDict

\* examples/test_api.py, extract_xml_relevant_data; every read is a .get or
\* guarded by a membership test, so nothing is raised
DemoExtract(country_data) ==
    LET name_data    == Get(country_data, "name", EmptyDict)
        currencies   == Get(country_data, "currencies", EmptyDict)
        native_names == Get(name_data, "nativeName", EmptyDict)
    IN  [raised |-> FALSE,
         value  |-> [code          |-> Get(country_data, "cca2", EmptyStr),
                     original_name |-> Get(name_data, "official", EmptyStr),
                     common_name   |-> Get(name_data, "common", EmptyStr),
                     local_name    |-> DemoLocalName(native_names),
                     currency      |-> DemoCurrencyInfo(currencies)]]

-----------------------------------------------------------------------------
(* generate_formatted_xml: the text of the document                         *)
(* A document is a sequence of tokens.  The markup the generator writes     *)
(* itself is one token per tag; every character of a field value is one     *)
(* token.  A line of xml_lines is the sequence of the tokens of that line.  *)

Open(tag)  == "<" \o tag \o ">"
Close(tag) == "</" \o tag \o ">"
XmlDecl    == "<?xml version=\"1.0\" encoding=\"UTF-8\"?>"
Newline    == "\n"
Indent1    == "  "
Indent2    == "    "
Indent3    == "      "

\* Mutant: an element whose text is empty is written as nothing at all.
ElementLineSkipEmpty(indent, tag, text) ==
    IF text = EmptyStr THEN << >> ELSE <<indent, Open(tag)>> \o text \o <<Close(tag)>>

\* f"    <Code>{value}</Code>": the value is spliced in as it is
ElementLine(indent, tag, text) == <<indent, Open(tag)>> \o text \o <<Close(tag)>>

\* improved_xml_generator.py:111-124, the lines of one country block
CountryBlock(x) ==
    << <<Indent1, Open("Countries")>>,
       ElementLine(Indent2, "Code", x.code),
       ElementLine(Indent2, "OriginalName", x.original_name),
       ElementLine(Indent2, "CommonName", x.common_name),
       ElementLine(Indent2, "LocalName", x.local_name),
       <<Indent2, Open("OfficialCurrency")>>,
       ElementLine(Indent3, "Code", x.currency.code),
       ElementLine(Indent3, "Name", x.currency.name),
       ElementLine(Indent3, "Symbol", x.currency.symbol),
       <<Indent2, Close("OfficialCurrency")>>,
       <<Indent1, Close("Countries")>>,
       << >> >>

\* "\n".join(lines): the tokens of the lines with a line break between lines
RECURSIVE JoinLines(_)
JoinLines(lines) ==
    IF Len(lines) = 0 THEN << >>
    ELSE IF Len(lines) = 1 THEN lines[1]
    ELSE LET half == Len(lines) \div 2
         IN  JoinLines(SubSeq(lines, 1, half)) \o <<Newline>>
             \o JoinLines(SubSeq(lines, half + 1, Len(lines)))

-----------------------------------------------------------------------------
(* xml.etree.ElementTree.parse, as far as the documents written here go     *)

TagNames == {"CountriesCollection", "Countries", "Code", "OriginalName",
             "CommonName", "LocalName", "OfficialCurrency", "Name", "Symbol"}
Whitespace == {Newline, Indent1, Indent2, Indent3}
IsOpenTag(t)  == \E n \in TagNames : t = Open(n)
IsCloseTag(t) == \E n \in TagNames : t = Close(n)
TagOf(t)      == CHOOSE n \in TagNames : t = Open(n) \/ t = Close(n)

\* The parser after one more token.  st.stack holds the open elements, each
\* with the character data seen in it and whether it has a child element;
\* st.leaves collects <<tag, text>> of every closed element without children;
\* st.count counts the Countries elements below the root (.//Countries).
\* A "<" or "&" among the character data starts markup or a reference that
\* nothing in the text completes, which the parser rejects.
ParseToken(st, t, first) ==
    LET depth == Len(st.stack)
        bad   == [st EXCEPT !.ok = FALSE]
    IN  IF ~st.ok THEN st
        ELSE IF t = XmlDecl THEN (IF first THEN st ELSE bad)
        ELSE IF IsOpenTag(t) THEN
            IF depth = 0 /\ st.roots >= 1 THEN bad
            ELSE [st EXCEPT
                    !.stack = Append(
                        IF depth = 0 THEN st.stack
                        ELSE [st.stack EXCEPT ![depth].child = TRUE],
                        [tag |-> TagOf(t), text |-> EmptyStr, child |-> FALSE]),
                    !.roots = IF depth = 0 THEN st.roots + 1 ELSE st.roots,
                    !.count = IF depth > 0 /\ TagOf(t) = "Countries"
                              THEN st.count + 1 ELSE st.count]
        ELSE IF IsCloseTag(t) THEN
            IF depth = 0 \/ st.stack[depth].tag # TagOf(t) THEN bad
            ELSE [st EXCEPT
                    !.stack  = SubSeq(st.stack, 1, depth - 1),
                    !.leaves = IF st.stack[depth].child THEN st.leaves
                               ELSE Append(st.leaves,
                                           <<TagOf(t), st.stack[depth].text>>)]
        ELSE IF t \in {"<", "&"} THEN bad
        ELSE IF depth = 0 THEN (IF t \in Whitespace THEN st ELSE bad)
        ELSE [st EXCEPT !.stack[depth].text = Append(st.stack[depth].text, t)]

\* The parser run over tokens lo..hi of doc, from left to right, stopping at
\* the first token it rejects.  The range is split in halves so that the
\* evaluation nests only logarithmically deep in the length of the document.
RECURSIVE ParseFrom(_, _, _, _)
ParseFrom(doc, lo, hi, st) ==
    IF lo > hi THEN st
    ELSE IF lo = hi THEN ParseToken(st, doc[lo], lo = 1)
    ELSE LET mid == (lo + hi) \div 2
             st1 == ParseFrom(doc, lo, mid, st)
         IN  IF st1.ok THEN ParseFrom(doc, mid + 1, hi, st1) ELSE st1

\* ET.parse(path) followed by tree.findall(".//Countries"): ok is FALSE when
\* the parser raises ParseError
ParseXml(doc) ==
    LET st == ParseFrom(doc, 1, Len(doc), [ok |-> TRUE, stack |-> << >>, roots |-> 0,
                                 count |-> 0, leaves |-> << >>])
    IN  [ok     |-> st.ok /\ Len(st.stack) = 0 /\ st.roots = 1,
         count  |-> st.count,
         leaves |-> st.leaves]

\* Mutant: the blocks are emitted in the reverse order of the records.
RECURSIVE CountryLinesReversed(_)
CountryLinesReversed(data) ==
    IF Len(data) = 0 THEN << >>
    ELSE CountryLinesReversed(Tail(data)) \o CountryBlock(ImprovedExtract(data[1]).value)

\* improved_xml_generator.py:101-130: final_xml for the fetched records
RECURSIVE CountryLines(_)
CountryLines(data) ==
    IF Len(data) = 0 THEN << >>
    ELSE CountryBlock(ImprovedExtract(data[1]).value) \o CountryLines(Tail(data))

FormattedXml(data) ==
    JoinLines(<< <<XmlDecl>>, <<Open("CountriesCollection")>> >>
              \o CountryLines(data)
              \o << <<Close("CountriesCollection")>> >>)

-----------------------------------------------------------------------------
(* The file system: os.path.dirname, os.makedirs, open(..., 'w'), exists    *)

None   == << >>
NoExc  == "none"
NoFile == <<"(no such file)">>

\* os.path.dirname(path): a path is [dir, base], dir the sequence of its
\* directory components (empty for a bare file name)
DirName(path) == path.dir

Prefixes(d) == {SubSeq(d, 1, n) : n \in 1..Len(d)}

\* Mutant: a bare file name is taken to need no directory.
MakeDirsBareOk(f, d) ==
    IF d = << >> \/ Prefixes(d) \subseteq f.dirs THEN [fs |-> f, exc |-> NoExc]
    ELSE IF ~f.writable THEN [fs |-> f, exc |-> "PermissionError"]
    ELSE [fs |-> [f EXCEPT !.dirs = f.dirs \cup Prefixes(d)], exc |-> NoExc]

\* os.makedirs(d, exist_ok=True); os.makedirs("") raises FileNotFoundError
MakeDirs(f, d) ==
    IF d = << >> THEN [fs |-> f, exc |-> "FileNotFoundError"]
    ELSE IF Prefixes(d) \subseteq f.dirs THEN [fs |-> f, exc |-> NoExc]
    ELSE IF ~f.writable THEN [fs |-> f, exc |-> "PermissionError"]
    ELSE [fs |-> [f EXCEPT !.dirs = f.dirs \cup Prefixes(d)], exc |-> NoExc]

\* with open(path, 'w') as f: f.write(content)
WriteFile(f, path, content) ==
    IF ~(Prefixes(path.dir) \subseteq f.dirs)
    THEN [fs |-> f, exc |-> "FileNotFoundError"]
    ELSE IF ~f.writable THEN [fs |-> f, exc |-> "PermissionError"]
    ELSE [fs |-> [f EXCEPT !.files[path] = content], exc |-> NoExc]

\* os.path.exists(path)
Exists(f, path) == f.files[path] # NoFile

\* ImprovedCountryXMLGenerator.generate_formatted_xml
GenerateFormattedXml(data, path, f) ==
    IF \E k \in 1..Len(data) : ImprovedExtract(data[k]).raised
    THEN [fs |-> f, ret |-> None, exc |-> "KeyError", wrote |-> FALSE]
    ELSE LET md == MakeDirs(f, DirName(path))
         IN  IF md.exc # NoExc
             THEN [fs |-> md.fs, ret |-> None, exc |-> md.exc, wrote |-> FALSE]
             ELSE LET w == WriteFile(md.fs, path, FormattedXml(data))
                  IN  IF w.exc # NoExc
                      THEN [fs |-> w.fs, ret |-> None, exc |-> w.exc,
                            wrote |-> FALSE]
                      ELSE [fs |-> w.fs, ret |-> <<path>>, exc |-> NoExc,
                            wrote |-> TRUE]

\* Mutant: the document is generated even when nothing was fetched.
GenerateCountriesXmlAlways(data, path, f) == GenerateFormattedXml(data, path, f)

\* generate_countries_xml, after fetch_country_data returned `data`
GenerateCountriesXml(data, path, f) ==
    IF ~Truthy(data)
    THEN [fs |-> f, ret |-> None, exc |-> NoExc, wrote |-> FALSE]
    ELSE GenerateFormattedXml(data, path, f)

-----------------------------------------------------------------------------
(* The records the extraction is applied to                                 *)

MaxNative     == 2      \* entries of a nativeName mapping
MaxCurrencies == 2      \* entries of a currencies mapping

LangCodes     == {"eng", "tam", "hin", "jpn"}
CurrencyCodes == {<<"I", "N", "R">>, <<"J", "P", "Y">>}

NativeText(lang) ==
    CASE lang = "eng" -> <<"E">>
      [] lang = "tam" -> <<"T">>
      [] lang = "hin" -> <<"H">>
      [] lang = "jpn" -> <<"J">>

OptPair(present, k, v) == IF present THEN << <<k, v>> >> ELSE << >>

\* the injective sequences of length n over S: the key orders of a dict
KeySeqs(S, n) == {s \in [1..n -> S] : \A a, b \in 1..n : a # b => s[a] # s[b]}

OfficialChoices == {"absent", "empty", "text"}

NativeEntry(lang, choice) ==
    CASE choice = "absent" -> EmptyDict
      [] choice = "empty"  -> << <<"official", EmptyStr>> >>
      [] choice = "text"   -> << <<"official", NativeText(lang)>> >>

NativeMaps ==
    UNION { { [k \in 1..n |-> <<s[k], NativeEntry(s[k], c[k])>>] :
                s \in KeySeqs(LangCodes, n), c \in [1..n -> OfficialChoices] } :
            n \in 0..MaxNative }

CurrencyEntry(code, hasName, hasSymbol) ==
    OptPair(hasName, "name", code \o <<"n">>) \o
    OptPair(hasSymbol, "symbol", code \o <<"s">>)

\* the first entry, the one the extraction reads, may lack its name or its
\* symbol; the entries after it are complete
CurrencyMaps ==
    UNION { { [k \in 1..n |-> <<s[k], CurrencyEntry(s[k], k > 1 \/ hn, k > 1 \/ hs)>>] :
                s \in KeySeqs(CurrencyCodes, n),
                hn \in BOOLEAN, hs \in BOOLEAN } :
            n \in 0..MaxCurrencies }

NameDicts ==
    { OptPair(ho, "official", <<"O">>) \o OptPair(hc, "common", <<"C">>) \o nn :
        ho \in BOOLEAN, hc \in BOOLEAN,
        nn \in {EmptyDict} \cup {<< <<"nativeName", m>> >> : m \in NativeMaps} }

CountryRecords ==
    { OptPair(hcode, "cca2", <<"I", "N">>) \o nm \o cur :
        hcode \in BOOLEAN,
        nm  \in {EmptyDict} \cup {<< <<"name", d>> >> : d \in NameDicts},
        cur \in {EmptyDict} \cup {<< <<"currencies", m>> >> : m \in CurrencyMaps} }

NoValue == << >>

-----------------------------------------------------------------------------
(* ExtractSpec: extract_xml_data and the country block, on every record     *)

RunIdle ==
    /\ pc = "idle" /\ test_only = FALSE /\ countries = << >>
    /\ output_file = NoValue /\ fs = NoValue /\ fs0 = NoValue
    /\ net = NoValue /\ resp = NoValue /\ probe_ok = FALSE /\ i = 0
    /\ requests = << >> /\ responses = << >> /\ countries_data = << >>
    /\ gen = [ret |-> << >>, exc |-> "none", wrote |-> FALSE]
    /\ result = NoValue /\ exit_code = NoValue /\ probes = 0

ExtractInit ==
    /\ epc = "input"
    /\ rec \in CountryRecords
    /\ xml_data = NoValue
    /\ block = NoValue
    /\ RunIdle

\* ImprovedCountryXMLGenerator.extract_xml_data(rec)
ExtractImproved ==
    /\ epc = "input"
    /\ xml_data' = ImprovedExtract(rec)
    /\ epc' = "extracted"
    /\ UNCHANGED <<rec, block, rvars>>

\* CountryXMLGenerator.extract_xml_data(rec)
ExtractSimple ==
    /\ epc = "input"
    /\ xml_data' = SimpleExtract(rec)
    /\ epc' = "simple"
    /\ UNCHANGED <<rec, block, rvars>>

\* examples/test_api.py: extract_xml_relevant_data(rec)
ExtractDemo ==
    /\ epc = "input"
    /\ xml_data' = DemoExtract(rec)
    /\ epc' = "demo"
    /\ UNCHANGED <<rec, block, rvars>>

\* the body of the loop of generate_formatted_xml for the extracted record
RenderBlock ==
    /\ epc = "extracted"
    /\ ~xml_data.raised
    /\ block' = CountryBlock(xml_data.value)
    /\ epc' = "rendered"
    /\ UNCHANGED <<rec, xml_data, rvars>>

ExtractNext == ExtractImproved \/ ExtractSimple \/ ExtractDemo \/ RenderBlock

ExtractSpec == ExtractInit /\ [][ExtractNext]_vars

-----------------------------------------------------------------------------
(* What the record holds, read directly from the record                     *)

RecName       == Get(rec, "name", EmptyDict)
RecNative     == Get(RecName, "nativeName", EmptyDict)
RecCurrencies == Get(rec, "currencies", EmptyDict)

\* the positions of the priority list whose code is a key of the mapping
PriorityPresent ==
    {p \in 1..Len(language_priority) : HasKey(RecNative, language_priority[p])}

EarliestPriority ==
    language_priority[CHOOSE p \in PriorityPresent : \A q \in PriorityPresent : p <= q]

\* the 'official' value of the mapping's entry for lang; "" when it has none
OfficialOf(lang) ==
    LET n     == CHOOSE m \in 1..Len(RecNative) : RecNative[m][1] = lang
        entry == RecNative[n][2]
    IN  IF \E m \in 1..Len(entry) : entry[m][1] = "official"
        THEN entry[CHOOSE m \in 1..Len(entry) : entry[m][1] = "official"][2]
        ELSE EmptyStr

Extracted == epc \in {"extracted", "rendered"}

\* the text between the opening and the closing tag of an element line
ElementText(line) == SubSeq(line, 3, Len(line) - 1)

\* the line is the element `tag`: indentation, opening tag, text, closing tag
IsElement(line, tag) ==
    /\ Len(line) >= 3
    /\ line[2] = Open(tag)
    /\ line[Len(line)] = Close(tag)

\* the value of field k of a mapping entry, "" when the entry has no k
EntryField(entry, k) ==
    IF \E m \in 1..Len(entry) : entry[m][1] = k
    THEN entry[CHOOSE m \in 1..Len(entry) : entry[m][1] = k][2]
    ELSE EmptyStr

-----------------------------------------------------------------------------
(* Claims about the extraction                                              *)

\* C2: whenever the native-name mapping of the record holds a code of the
\* priority list, ImprovedCountryXMLGenerator.extract_xml_data sets local_name
\* to the 'official' value of the earliest priority code present ("" if that
\* entry has no 'official'), whatever the other entries and their order are.
C2_PriorityLocalName ==
    (Extracted /\ PriorityPresent # {}) =>
        xml_data.value.local_name = OfficialOf(EarliestPriority)

\* C3: both extract_xml_data methods return, as the currency sub-record, the
\* key of the first entry of the currency mapping with that entry's name and
\* symbol ("" where absent), and three empty strings when the mapping is
\* empty or absent; and for a mapping of exactly one entry the Code, Name and
\* Symbol lines of the rendered OfficialCurrency block carry that entry's key,
\* name and symbol.
C3_FirstCurrency ==
    /\ (epc \in {"extracted", "rendered", "simple"}) =>
          xml_data.value.currency =
              IF Len(RecCurrencies) > 0
              THEN [code   |-> RecCurrencies[1][1],
                    name   |-> EntryField(RecCurrencies[1][2], "name"),
                    symbol |-> EntryField(RecCurrencies[1][2], "symbol")]
              ELSE [code |-> EmptyStr, name |-> EmptyStr, symbol |-> EmptyStr]
    /\ (epc = "rendered" /\ Len(RecCurrencies) = 1) =>
          /\ block[6] = <<Indent2, Open("OfficialCurrency")>>
          /\ IsElement(block[7], "Code")
          /\ ElementText(block[7]) = RecCurrencies[1][1]
          /\ IsElement(block[8], "Name")
          /\ ElementText(block[8]) = EntryField(RecCurrencies[1][2], "name")
          /\ IsElement(block[9], "Symbol")
          /\ ElementText(block[9]) = EntryField(RecCurrencies[1][2], "symbol")
          /\ block[10] = <<Indent2, Close("OfficialCurrency")>>

\* C3 witness: a record with exactly one currency, with a name and a symbol,
\* has been extracted and rendered.
C3_Witness ==
    /\ epc = "rendered"
    /\ Len(RecCurrencies) = 1
    /\ EntryField(RecCurrencies[1][2], "name") # EmptyStr
    /\ EntryField(RecCurrencies[1][2], "symbol") # EmptyStr

-----------------------------------------------------------------------------
(* Spec: one run of automated_generator.py                                  *)

MaxNames   == 2     \* names in the country list of a run
MaxResults == 2     \* records in one response of the endpoint

Names == {"india", "japan"}

\* a complete record, and one whose official name holds an ampersand
RecPlain ==
    << <<"cca2", <<"I", "N">>>>,
       <<"name", << <<"official", <<"R", "I">>>>,
                    <<"common", <<"I">>>>,
                    <<"nativeName",
                      << <<"eng", << <<"official", <<"E">>>> >> >>,
                         <<"hin", << <<"official", <<"H">>>> >> >> >> >> >> >>,
       <<"currencies",
         << << <<"I", "N", "R">>,
               << <<"name", <<"r">>>>, <<"symbol", <<"s">>>> >> >> >> >> >>
RecAmp ==
    << <<"cca2", <<"T", "T">>>>,
       <<"name", << <<"official", <<"T", "&", "T">>>>,
                    <<"common", <<"T">>>> >> >> >>
ApiRecords == {RecPlain, RecAmp}

\* a response lists distinct countries
ResultLists == UNION {KeySeqs(ApiRecords, n) : n \in 0..MaxResults}
NameLists   == UNION {[1..n -> Names] : n \in 0..MaxNames}

BarePath   == [dir |-> << >>, base |-> "my_countries.xml"]
NestedPath == [dir |-> <<"output">>, base |-> "countries.xml"]
Paths      == {BarePath, NestedPath}
OldDoc     == <<"(a document of an earlier run)">>

\* the file systems a run can start in: the output directory may exist or
\* not, a file of an earlier run may be at the output path, and the file
\* system may refuse writes
InitialFs(path) ==
    { [dirs |-> ds, files |-> [q \in Paths |-> IF q = path THEN old ELSE NoFile],
       writable |-> w] :
        ds  \in {{}, {<<"output">>}},
        old \in {NoFile, OldDoc},
        w   \in BOOLEAN }

\* improved_xml_generator.py:28, self.session.timeout = 10: an attribute
\* requests.Session does not have and never reads
session_timeout == 10
\* automated_generator.py:68, requests.get(..., timeout=10)
probe_timeout == 10

\* self.session.get(url): no timeout argument, so the request has none
SessionGet(name) ==
    [for |-> "lookup", name |-> name, timeout |-> None,
     session |-> [timeout |-> session_timeout]]

\* requests.get(".../name/india", timeout=10)
ProbeGet == [for |-> "probe", name |-> "india", timeout |-> <<probe_timeout>>,
             session |-> None]

\* generate_countries_xml has not been called
NoGen == [ret |-> None, exc |-> NoExc, wrote |-> FALSE]

NewResult ==
    [success |-> FALSE, countries_requested |-> Len(countries),
     countries_processed |-> 0, output_file |-> output_file,
     errors |-> << >>, warnings |-> << >>]

ExtractIdle ==
    epc = "idle" /\ rec = NoValue /\ xml_data = NoValue /\ block = NoValue

Init ==
    /\ ExtractIdle
    /\ pc = "main"
    /\ test_only \in BOOLEAN
    /\ countries \in NameLists
    /\ output_file \in Paths
    /\ fs \in {f \in InitialFs(output_file) :
                  f.files[output_file] # NoFile =>
                      Prefixes(output_file.dir) \subseteq f.dirs}
    /\ fs0 = fs
    /\ net = None /\ resp = NoValue /\ probe_ok = FALSE /\ i = 0
    /\ requests = << >> /\ responses = << >> /\ countries_data = << >>
    /\ gen = NoGen /\ result = NoValue /\ exit_code = NoValue /\ probes = 0

\* Mutant: the empty country list is rejected before --test-only is looked at.
MainCountriesFirst ==
    /\ pc = "main"
    /\ IF ~Truthy(countries)
       THEN /\ exit_code' = 1
            /\ pc' = "exit"
            /\ UNCHANGED <<net, result, probes>>
       ELSE /\ net' = ProbeGet
            /\ probes' = probes + 1
            /\ result' = IF test_only THEN result ELSE NewResult
            /\ pc' = "probe_wait"
            /\ UNCHANGED exit_code
    /\ UNCHANGED <<evars, test_only, countries, output_file, fs, fs0, resp,
                   probe_ok, i, requests, responses, countries_data, gen>>

\* main(): --test-only probes and exits; an empty country list exits with 1;
\* otherwise generate_xml_with_validation starts and probes the API first
Main ==
    /\ pc = "main"
    /\ IF ~test_only /\ ~Truthy(countries)
       THEN /\ exit_code' = 1
            /\ pc' = "exit"
            /\ UNCHANGED <<net, result, probes>>
       ELSE /\ net' = ProbeGet
            /\ probes' = probes + 1
            /\ result' = IF test_only THEN result ELSE NewResult
            /\ pc' = "probe_wait"
            /\ UNCHANGED exit_code
    /\ UNCHANGED <<evars, test_only, countries, output_file, fs, fs0, resp,
                   probe_ok, i, requests, responses, countries_data, gen>>

\* the endpoint answers the request in flight: with a list of records, or the
\* request fails (no connection, an HTTP error status)
HttpRespond ==
    /\ pc \in {"probe_wait", "lookup_wait"}
    /\ \E r \in {[kind |-> "error", data |-> << >>]} \cup
                {[kind |-> "ok", data |-> d] :
                    d \in IF pc = "probe_wait" THEN {<< >>} ELSE ResultLists} :
          resp' = r
    /\ net' = None
    /\ pc' = IF pc = "probe_wait" THEN "probe_got" ELSE "lookup_got"
    /\ UNCHANGED <<evars, probes, test_only, countries, output_file, fs, fs0, probe_ok,
                   i, requests, responses, countries_data, gen, result, exit_code>>

\* the timeout of the request in flight expires: requests raises Timeout.
\* Only a request that carries a timeout can time out.
HttpTimeout ==
    /\ pc \in {"probe_wait", "lookup_wait"}
    /\ net.timeout # None
    /\ resp' = [kind |-> "error", data |-> << >>]
    /\ net' = None
    /\ pc' = IF pc = "probe_wait" THEN "probe_got" ELSE "lookup_got"
    /\ UNCHANGED <<evars, probes, test_only, countries, output_file, fs, fs0, probe_ok,
                   i, requests, responses, countries_data, gen, result, exit_code>>

\* Mutant: the lookups start whatever the probe gave.
ProbeDoneIgnoreFailure ==
    /\ pc = "probe_got"
    /\ probe_ok' = (resp.kind = "ok")
    /\ IF test_only
       THEN /\ exit_code' = IF probe_ok' THEN 0 ELSE 1
            /\ pc' = "exit"
            /\ UNCHANGED <<result, i>>
       ELSE IF FALSE
       THEN /\ result' = [result EXCEPT
                            !.errors = Append(@, "API connectivity test failed")]
            /\ pc' = "report"
            /\ UNCHANGED <<exit_code, i>>
       ELSE /\ i' = 1
            /\ pc' = "fetch"
            /\ UNCHANGED <<exit_code, result>>
    /\ UNCHANGED <<evars, probes, test_only, countries, output_file, fs, fs0, net, resp,
                   requests, responses, countries_data, gen>>

\* test_api_connectivity returns; main() exits on it in test-only mode,
\* generate_xml_with_validation gives up or goes on to generate_countries_xml
ProbeDone ==
    /\ pc = "probe_got"
    /\ probe_ok' = (resp.kind = "ok")
    /\ IF test_only
       THEN /\ exit_code' = IF probe_ok' THEN 0 ELSE 1
            /\ pc' = "exit"
            /\ UNCHANGED <<result, i>>
       ELSE IF ~probe_ok'
       THEN /\ result' = [result EXCEPT
                            !.errors = Append(@, "API connectivity test failed")]
            /\ pc' = "report"
            /\ UNCHANGED <<exit_code, i>>
       ELSE /\ i' = 1
            /\ pc' = "fetch"
            /\ UNCHANGED <<exit_code, result>>
    /\ UNCHANGED <<evars, probes, test_only, countries, output_file, fs, fs0, net, resp,
                   requests, responses, countries_data, gen>>

\* fetch_country_data: the loop issues the lookup of the next name
FetchSend ==
    /\ pc = "fetch"
    /\ i <= Len(countries)
    /\ net' = SessionGet(countries[i])
    /\ requests' = Append(requests, countries[i])
    /\ pc' = "lookup_wait"
    /\ UNCHANGED <<evars, probes, test_only, countries, output_file, fs, fs0, resp,
                   probe_ok, i, responses, countries_data, gen, result, exit_code>>

\* Mutant: the first record is taken from the end of the response.
FetchedRecordLast(acc, r) ==
    IF r.kind = "ok" /\ Truthy(r.data) THEN Append(acc, r.data[Len(r.data)]) ELSE acc

\* improved_xml_generator.py:41-50: countries_data after the response
FetchedRecord(acc, r) ==
    IF r.kind = "ok" /\ Truthy(r.data) THEN Append(acc, r.data[1]) ELSE acc

\* Mutant: a failed lookup ends the loop (break instead of continue).
NextNameBreak(k, r, n) == IF r.kind = "error" THEN n + 1 ELSE k + 1

\* the loop goes on with the next name, whatever the lookup gave
NextName(k, r, n) == k + 1

\* fetch_country_data: the body of the loop after the lookup returned
FetchHandle ==
    /\ pc = "lookup_got"
    /\ responses' = Append(responses, resp)
    /\ countries_data' = FetchedRecord(countries_data, resp)
    /\ i' = NextName(i, resp, Len(countries))
    /\ pc' = "fetch"
    /\ UNCHANGED <<evars, probes, test_only, countries, output_file, fs, fs0, net, resp,
                   probe_ok, requests, gen, result, exit_code>>

\* fetch_country_data returns; generate_countries_xml writes the document,
\* returns None, or lets an exception through
Generate ==
    /\ pc = "fetch"
    /\ i > Len(countries)
    /\ LET g == GenerateCountriesXml(countries_data, output_file, fs)
       IN  /\ fs' = g.fs
           /\ gen' = [ret |-> g.ret, exc |-> g.exc, wrote |-> g.wrote]
    /\ pc' = "validate"
    /\ UNCHANGED <<evars, probes, test_only, countries, output_file, fs0, net, resp,
                   probe_ok, i, requests, responses, countries_data, result,
                   exit_code>>

\* Mutant: a file that exists counts as generated, without parsing it.
ValidatedNoParse(res, g, f, names) ==
    IF g.exc # NoExc
    THEN [res EXCEPT !.errors = Append(@, g.exc)]
    ELSE IF g.ret # None /\ Exists(f, g.ret[1])
    THEN [res EXCEPT !.success = TRUE, !.countries_processed = 1]
    ELSE [res EXCEPT !.errors = Append(@, "XML file was not created")]

\* Mutant: the missing-country warning is added whatever the counts are.
ValidatedWarnAlways(res, g, f, names) ==
    IF g.exc # NoExc
    THEN [res EXCEPT !.errors = Append(@, g.exc)]
    ELSE IF g.ret # None /\ Exists(f, g.ret[1])
    THEN LET parsed == ParseXml(f.files[g.ret[1]])
         IN  IF ~parsed.ok
             THEN [res EXCEPT !.errors = Append(@, "ParseError")]
             ELSE [res EXCEPT
                     !.success = TRUE,
                     !.countries_processed = parsed.count,
                     !.warnings =
                         Append(@, [missing |-> Len(names) - parsed.count,
                                    text |-> "countries could not be processed"])]
    ELSE [res EXCEPT !.errors = Append(@, "XML file was not created")]

\* automated_generator.py:106-128 on what generate_countries_xml did
Validated(res, g, f, names) ==
    IF g.exc # NoExc
    THEN [res EXCEPT !.errors = Append(@, g.exc)]
    ELSE IF g.ret # None /\ Exists(f, g.ret[1])
    THEN LET parsed == ParseXml(f.files[g.ret[1]])
         IN  IF ~parsed.ok
             THEN [res EXCEPT !.errors = Append(@, "ParseError")]
             ELSE [res EXCEPT
                     !.success = TRUE,
                     !.countries_processed = parsed.count,
                     !.warnings =
                         IF parsed.count < Len(names)
                         THEN Append(@, [missing |-> Len(names) - parsed.count,
                                         text |-> "countries could not be processed"])
                         ELSE @]
    ELSE [res EXCEPT !.errors = Append(@, "XML file was not created")]

\* generate_xml_with_validation: the rest of the try block and its except
Validate ==
    /\ pc = "validate"
    /\ result' = Validated(result, gen, fs, countries)
    /\ pc' = "report"
    /\ UNCHANGED <<evars, probes, test_only, countries, output_file, fs, fs0, net, resp,
                   probe_ok, i, requests, responses, countries_data, gen,
                   exit_code>>

\* main(): the report is printed and the run exits on result["success"]
Exit ==
    /\ pc = "report"
    /\ exit_code' = IF result.success THEN 0 ELSE 1
    /\ pc' = "exit"
    /\ UNCHANGED <<evars, probes, test_only, countries, output_file, fs, fs0, net, resp,
                   probe_ok, i, requests, responses, countries_data, gen, result>>

Next ==
    \/ Main
    \/ HttpRespond
    \/ HttpTimeout
    \/ ProbeDone
    \/ FetchSend
    \/ FetchHandle
    \/ Generate
    \/ Validate
    \/ Exit

Spec == Init /\ [][Next]_vars

-----------------------------------------------------------------------------
(* Claims about a run                                                       *)

\* fetch_country_data has returned in this run
FetchReturned ==
    \/ pc = "validate"
    \/ pc \in {"report", "exit"} /\ ~test_only /\ probe_ok

\* generate_xml_with_validation has returned in this run
Returned == pc \in {"report", "exit"} /\ ~test_only

\* the first record of every lookup that gave a non-empty list, in order
FirstRecords(rs) ==
    LET good == SelectSeq(rs, LAMBDA r : r.kind = "ok" /\ Len(r.data) > 0)
    IN  [k \in 1..Len(good) |-> good[k].data[1]]

\* C1: fetch_country_data issues the lookups one per name occurrence in input
\* order, goes on after a failed or empty lookup, and returns the first record
\* of each lookup that gave a non-empty list, in input order.
C1_FetchContract ==
    /\ Len(requests) <= Len(countries)
    /\ requests = SubSeq(countries, 1, Len(requests))
    /\ FetchReturned =>
          /\ requests = countries
          /\ Len(responses) = Len(countries)
          /\ countries_data = FirstRecords(responses)

\* C1 witness: a list that names one country twice was fetched; the first
\* lookup failed and the second gave two records.
C1_Witness ==
    /\ FetchReturned
    /\ Len(countries) = 2
    /\ countries[1] = countries[2]
    /\ responses[1].kind = "error"
    /\ responses[2].kind = "ok"
    /\ Len(responses[2].data) = 2

\* the eight <<element, value>> pairs of every fetched record, in the order
\* of the document
RECURSIVE FieldValues(_)
FieldValues(data) ==
    IF Len(data) = 0 THEN << >>
    ELSE LET x == ImprovedExtract(data[1]).value
         IN  << <<"Code", x.code>>, <<"OriginalName", x.original_name>>,
                <<"CommonName", x.common_name>>, <<"LocalName", x.local_name>>,
                <<"Code", x.currency.code>>, <<"Name", x.currency.name>>,
                <<"Symbol", x.currency.symbol>> >> \o FieldValues(Tail(data))

\* C5: in every document generate_formatted_xml writes, no "&", "<" or ">"
\* of a field value stands unescaped, the document parses, and the text of
\* every element is the extracted field value.
C5_ValuesEscaped ==
    (FetchReturned /\ gen.wrote) =>
        LET doc    == fs.files[output_file]
            parsed == ParseXml(doc)
        IN  /\ \A k \in 1..Len(doc) : doc[k] \notin {"&", "<", ">"}
            /\ parsed.ok
            /\ parsed.leaves = FieldValues(countries_data)

\* C6: when at least one record was fetched and the file was written,
\* re-parsing the file succeeds and counts as many country blocks as records
\* were fetched, and countries_processed is that number.
C6_RoundTrip ==
    (Returned /\ gen.wrote) =>
        /\ ParseXml(fs.files[output_file]).ok
        /\ ParseXml(fs.files[output_file]).count = Len(countries_data)
        /\ result.success
        /\ result.countries_processed = Len(countries_data)

\* C7: when no lookup of the run gave a record, generate_countries_xml returns
\* None and leaves the file system as it was, and generate_xml_with_validation
\* returns success = false, a non-empty errors list and countries_processed = 0,
\* also when a file of an earlier run is at the output path.
C7_NothingFetched ==
    (FetchReturned /\ countries_data = << >>) =>
        /\ gen.ret = None
        /\ ~gen.wrote
        /\ fs = fs0
        /\ Returned =>
              /\ result.success = FALSE
              /\ Len(result.errors) > 0
              /\ result.countries_processed = 0

\* C7 witness: both lookups of a run came to nothing, one failed and one gave
\* an empty list, while a file of an earlier run is at the output path.
C7_Witness ==
    /\ pc = "exit"
    /\ FetchReturned
    /\ Len(countries) = 2
    /\ responses[1].kind = "error"
    /\ responses[2] = [kind |-> "ok", data |-> << >>]
    /\ fs0.files[output_file] = OldDoc
    /\ fs0.writable

\* C8: for a non-empty sequence of fetched records and any output path on a
\* writable file system, a bare file name included, the generator creates the
\* missing parent directories, writes the document to the path and returns it.
C8_WritesToPath ==
    (FetchReturned /\ Len(countries_data) > 0 /\ fs0.writable) =>
        /\ gen.exc = NoExc
        /\ gen.ret = <<output_file>>
        /\ Prefixes(output_file.dir) \subseteq fs.dirs
        /\ fs.files[output_file] = FormattedXml(countries_data)

NormalExit == pc = "exit" /\ ~test_only /\ Len(countries) > 0

\* every name of the run was looked up and none gave a record
NoCountryResolved == FetchReturned /\ countries_data = << >>

\* creating the directories or writing the file raised
WriteFailed == gen.exc # NoExc

\* C9, as stated: a normal run with a non-empty country list exits with 0
\* exactly when the file was written and at least one country was processed,
\* and with 1 otherwise, and it exits with 1 only because no country resolved
\* or because writing the file failed.
C9_ExitCauses ==
    NormalExit =>
        /\ exit_code \in {0, 1}
        /\ exit_code = 0 <=> (gen.wrote /\ Len(countries_data) > 0)
        /\ exit_code = 1 => (NoCountryResolved \/ WriteFailed)

\* C9, amended: such a run exits with 0 exactly when the connectivity probe
\* succeeded, the file was written and the written file parsed again, and then
\* at least one country was processed; it exits with 1 otherwise, that is when
\* the probe failed, no country resolved, writing failed, or the written file
\* did not parse.
C9_ExitStatus ==
    NormalExit =>
        LET reparsed == gen.wrote /\ ParseXml(fs.files[output_file]).ok
        IN  /\ exit_code \in {0, 1}
            /\ exit_code = 0 <=> (probe_ok /\ reparsed)
            /\ exit_code = 0 => result.countries_processed >= 1
            /\ exit_code = 1 <=>
                  \/ ~probe_ok
                  \/ NoCountryResolved
                  \/ WriteFailed
                  \/ gen.wrote /\ ~reparsed

\* C9 witness: a run whose names would have been looked up exits with 1
\* because the connectivity probe failed.
C9_Witness ==
    /\ NormalExit
    /\ ~probe_ok
    /\ exit_code = 1
    /\ requests = << >>

\* C10: every lookup fetch_country_data has in flight is bounded by a timeout:
\* as long as the endpoint does not answer, the request can be abandoned by
\* its timeout and counted as a failure of that name.
C10_LookupBounded == (pc = "lookup_wait") => ENABLED HttpTimeout

\* the lines of a document of one block per record of data, in their order:
\* the declaration, the opening root tag, twelve lines per record, the
\* closing root tag
ExpectedLines(data) ==
    [j \in 1..(12 * Len(data) + 3) |->
        IF j = 1 THEN <<XmlDecl>>
        ELSE IF j = 2 THEN <<Open("CountriesCollection")>>
        ELSE IF j = 12 * Len(data) + 3 THEN <<Close("CountriesCollection")>>
        ELSE CountryBlock(ImprovedExtract(data[((j - 3) \div 12) + 1]).value)
                         [((j - 3) % 12) + 1]]

\* a lookup of the run did not give a record
SomeNameFailed ==
    \E k \in 1..Len(responses) :
        responses[k].kind = "error" \/ Len(responses[k].data) = 0

\* C11: the written document holds one country block per fetched record, the
\* i-th block rendered from the i-th fetched record; so it holds at most as
\* many blocks as names were given, and fewer when a name did not resolve.
C11_BlocksMatchRecords ==
    /\ Len(countries_data) <= Len(requests)
    /\ (FetchReturned /\ gen.wrote) =>
          LET doc == fs.files[output_file]
              n   == Cardinality({k \in 1..Len(doc) : doc[k] = Open("Countries")})
          IN  /\ doc = JoinLines(ExpectedLines(countries_data))
              /\ n = Len(countries_data)
              /\ n <= Len(countries)
              /\ SomeNameFailed => n < Len(countries)

\* C11 witness: two names resolved to different records and the document was
\* written.
C11_Witness ==
    /\ FetchReturned
    /\ gen.wrote
    /\ Len(countries_data) = 2
    /\ countries_data[1] # countries_data[2]

-----------------------------------------------------------------------------
(* Further claims about the extraction                                      *)

\* one of the two generators' extract_xml_data has returned
GeneratorExtracted == epc \in {"extracted", "rendered", "simple"}

\* C12: when the native-name mapping of the record is non-empty and holds no
\* code of the priority list, both generators' extract_xml_data set local_name
\* to the 'official' value of the first entry of the mapping ("" if that entry
\* has none); when the mapping is empty or absent, local_name is "".
C12_FallbackLocalName ==
    GeneratorExtracted =>
        /\ (Truthy(RecNative) /\ PriorityPresent = {}) =>
              xml_data.value.local_name = OfficialOf(RecNative[1][1])
        /\ ~Truthy(RecNative) => xml_data.value.local_name = EmptyStr

\* C12 witness: a mapping of two entries, none of a priority code, whose
\* official values differ, extracted by the improved generator.
C12_Witness ==
    /\ epc = "extracted"
    /\ Len(RecNative) = 2
    /\ PriorityPresent = {}
    /\ OfficialOf(RecNative[1][1]) # OfficialOf(RecNative[2][1])
    /\ xml_data.value.local_name = OfficialOf(RecNative[1][1])

-----------------------------------------------------------------------------
(* CountryXMLGenerator.generate_xml: the document of the simple generator   *)

\* ElementTree writes an element without text and children as <tag />
EmptyTag(tag) == "<" \o tag \o " />"

\* ElementTree's escaping of character data on serialisation
EscapeChar(c) ==
    CASE c = "&" -> "&amp;"
      [] c = "<" -> "&lt;"
      [] c = ">" -> "&gt;"
      [] OTHER   -> c

EscapeCdata(text) == [k \in 1..Len(text) |-> EscapeChar(text[k])]

\* simple_xml_generator.py:118-133, create_xml_element as ET.tostring writes
\* it: the text is set only when it is non-empty
SerializedElement(tag, text) ==
    IF Truthy(text)
    THEN <<Open(tag)>> \o EscapeCdata(text) \o <<Close(tag)>>
    ELSE <<EmptyTag(tag)>>

\* simple_xml_generator.py:150-165, one Countries element, serialised
SerializedCountry(x) ==
    <<Open("Countries")>>
    \o SerializedElement("Code", x.code)
    \o SerializedElement("OriginalName", x.original_name)
    \o SerializedElement("CommonName", x.common_name)
    \o SerializedElement("LocalName", x.local_name)
    \o <<Open("OfficialCurrency")>>
    \o SerializedElement("Code", x.currency.code)
    \o SerializedElement("Name", x.currency.name)
    \o SerializedElement("Symbol", x.currency.symbol)
    \o <<Close("OfficialCurrency"), Close("Countries")>>

RECURSIVE SerializedCountries(_)
SerializedCountries(data) ==
    IF Len(data) = 0 THEN << >>
    ELSE SerializedCountry(SimpleExtract(data[1]).value)
         \o SerializedCountries(Tail(data))

\* simple_xml_generator.py:168, ET.tostring(root, encoding='unicode')
ElementToString(data) ==
    IF Len(data) = 0 THEN <<EmptyTag("root")>>
    ELSE <<Open("root")>> \o SerializedCountries(data) \o <<Close("root")>>

IsRootWrapper(t) == t = Open("root") \/ t = Close("root")
NotRootWrapper(t) == ~IsRootWrapper(t)

\* simple_xml_generator.py:171, .replace('<root>', '').replace('</root>', '')
RemoveRoot(xml_str) == SelectSeq(xml_str, NotRootWrapper)

\* simple_xml_generator.py:174-190: the declaration, a line break and the
\* serialised elements; the pretty-printing of lines 177-190 always raises
\* (documentElement has no innerHTML) and leaves final_xml as it is
SimpleXml(data) == <<XmlDecl, Newline>> \o RemoveRoot(ElementToString(data))

\* CountryXMLGenerator.generate_xml
GenerateXml(data, path, f) ==
    IF \E k \in 1..Len(data) : SimpleExtract(data[k]).raised
    THEN [fs |-> f, ret |-> None, exc |-> "KeyError", wrote |-> FALSE]
    ELSE LET md == MakeDirs(f, DirName(path))
         IN  IF md.exc # NoExc
             THEN [fs |-> md.fs, ret |-> None, exc |-> md.exc, wrote |-> FALSE]
             ELSE LET w == WriteFile(md.fs, path, SimpleXml(data))
                  IN  IF w.exc # NoExc
                      THEN [fs |-> w.fs, ret |-> None, exc |-> w.exc,
                            wrote |-> FALSE]
                      ELSE [fs |-> w.fs, ret |-> <<path>>, exc |-> NoExc,
                            wrote |-> TRUE]

-----------------------------------------------------------------------------
(* DocSpec: each generator writes a document for a list of records          *)

\* the lists of one or more records handed to a generator
RecordLists == UNION {[1..n -> ApiRecords] : n \in 1..MaxNames}

DocInit ==
    /\ ExtractIdle
    /\ pc = "doc"
    /\ countries_data \in RecordLists
    /\ output_file \in Paths
    /\ fs \in {f \in InitialFs(output_file) :
                  f.files[output_file] # NoFile =>
                      Prefixes(output_file.dir) \subseteq f.dirs}
    /\ fs0 = fs
    /\ test_only = FALSE /\ countries = << >>
    /\ net = None /\ resp = NoValue /\ probe_ok = FALSE /\ i = 0
    /\ requests = << >> /\ responses = << >>
    /\ gen = NoGen /\ result = NoValue /\ exit_code = NoValue /\ probes = 0

\* ImprovedCountryXMLGenerator().generate_formatted_xml(countries_data, output_file)
WriteFormatted ==
    /\ pc = "doc"
    /\ LET g == GenerateFormattedXml(countries_data, output_file, fs)
       IN  /\ fs' = g.fs
           /\ gen' = [ret |-> g.ret, exc |-> g.exc, wrote |-> g.wrote]
    /\ pc' = "doc_formatted"
    /\ UNCHANGED <<evars, probes, test_only, countries, output_file, fs0, net, resp,
                   probe_ok, i, requests, responses, countries_data, result,
                   exit_code>>

\* CountryXMLGenerator().generate_xml(countries_data, output_file)
WriteSimple ==
    /\ pc = "doc"
    /\ LET g == GenerateXml(countries_data, output_file, fs)
       IN  /\ fs' = g.fs
           /\ gen' = [ret |-> g.ret, exc |-> g.exc, wrote |-> g.wrote]
    /\ pc' = "doc_simple"
    /\ UNCHANGED <<evars, probes, test_only, countries, output_file, fs0, net, resp,
                   probe_ok, i, requests, responses, countries_data, result,
                   exit_code>>

DocNext == WriteFormatted \/ WriteSimple

DocSpec == DocInit /\ [][DocNext]_vars

-----------------------------------------------------------------------------
(* Claims about the written document                                        *)

\* the number of elements open after token k of doc
Depth(doc, k) ==
    Cardinality({j \in 1..k : IsOpenTag(doc[j])})
    - Cardinality({j \in 1..k : IsCloseTag(doc[j])})

\* doc is the declaration followed by one root element, which is not itself a
\* country block and whose child elements are n country blocks; outside the
\* root there is only white space
HasCollectionRoot(doc, n) ==
    LET tags  == {k \in 1..Len(doc) : IsOpenTag(doc[k]) \/ IsCloseTag(doc[k])}
        first == CHOOSE k \in tags : \A j \in tags : k <= j
        last  == CHOOSE k \in tags : \A j \in tags : j <= k
        kids  == {k \in tags : IsOpenTag(doc[k]) /\ Depth(doc, k) = 2}
    IN  /\ Len(doc) >= 1 /\ doc[1] = XmlDecl
        /\ tags # {}
        /\ IsOpenTag(doc[first])
        /\ TagOf(doc[first]) # "Countries"
        /\ doc[last] = Close(TagOf(doc[first]))
        /\ \A k \in first..(last - 1) : Depth(doc, k) >= 1
        /\ Depth(doc, last) = 0
        /\ \A k \in (2..(first - 1)) \cup ((last + 1)..Len(doc)) :
              doc[k] \in Whitespace
        /\ \A k \in kids : doc[k] = Open("Countries")
        /\ Cardinality(kids) = n

DocWritten == pc \in {"doc_formatted", "doc_simple"} /\ gen.wrote

\* C13: every document written by either generator for one or more records
\* is the XML declaration followed by exactly one collection root element
\* whose children are the country blocks, one per record.
C13_SingleRoot ==
    DocWritten => HasCollectionRoot(fs.files[output_file], Len(countries_data))

\* the document of the improved generator has the collection root
FormattedHasRoot ==
    (pc = "doc_formatted" /\ gen.wrote) =>
        HasCollectionRoot(fs.files[output_file], Len(countries_data))

\* the document of the simple generator is the declaration, a line break and
\* the country blocks one after the other, with no element around them
SimpleHasNoRoot ==
    (pc = "doc_simple" /\ gen.wrote) =>
        LET doc == fs.files[output_file]
        IN  /\ doc[1] = XmlDecl
            /\ doc[3] = Open("Countries")
            /\ Cardinality({k \in 1..Len(doc) :
                               doc[k] = Open("Countries") /\ Depth(doc, k) = 1})
                  = Len(countries_data)
            /\ ~HasCollectionRoot(doc, Len(countries_data))

-----------------------------------------------------------------------------
(* Claims about the probe and the result                                    *)

\* C14: a --test-only run sends exactly one connectivity probe and no lookup,
\* leaves the file system as it was, and exits with 0 when the probe succeeded
\* and with 1 when it failed, whatever the country list and the output path.
C14_TestOnly ==
    test_only =>
        /\ requests = << >>
        /\ fs = fs0
        /\ probes <= 1
        /\ pc \in {"main", "probe_wait", "probe_got", "exit"}
        /\ pc = "exit" =>
              /\ probes = 1
              /\ exit_code = IF resp.kind = "ok" THEN 0 ELSE 1

\* C14 witness: a --test-only run with an empty country list exited with 0
\* after its probe succeeded.
C14_Witness ==
    /\ test_only
    /\ pc = "exit"
    /\ ~Truthy(countries)
    /\ probes = 1
    /\ exit_code = 0

\* generate_xml_with_validation has returned after its probe failed
ProbeFailed ==
    /\ ~test_only
    /\ probes = 1
    /\ pc \in {"report", "exit"}
    /\ ~probe_ok

\* C15: in generate_xml_with_validation the probe precedes every lookup; when
\* the probe fails no lookup is sent, no file is created or changed, and the
\* result has success = false, countries_processed = 0 and the one error
\* 'API connectivity test failed'.
C15_ProbeFirst ==
    /\ requests # << >> => (probes = 1 /\ probe_ok)
    /\ pc \in {"fetch", "lookup_wait", "lookup_got"} => (probes = 1 /\ probe_ok)
    /\ (probes = 1 /\ requests = << >> /\ pc \in {"report", "exit"}) =>
          (probe_ok <=> resp.kind = "ok")
    /\ ProbeFailed =>
          /\ requests = << >>
          /\ fs = fs0
          /\ gen = NoGen
          /\ result.success = FALSE
          /\ result.countries_processed = 0
          /\ result.errors = <<"API connectivity test failed">>

\* C15 witness: a run for two names returned after its probe failed.
C15_Witness ==
    /\ ProbeFailed
    /\ Len(countries) = 2
    /\ resp.kind = "error"
    /\ requests = << >>
    /\ result.errors = <<"API connectivity test failed">>

\* generate_xml_with_validation was called and has returned its result
ResultReturned == Returned /\ probes = 1

\* the warning of automated_generator.py:120-122 for n missing countries
MissingWarning(n) == [missing |-> n, text |-> "countries could not be processed"]

\* C16: every result generate_xml_with_validation returns has
\* countries_requested equal to the number of names given; success exactly
\* when errors is empty; countries_processed = 0 when success is false; and
\* the missing-country warning, counting requested minus processed, exactly
\* when success is true and fewer countries were processed than requested.
C16_ResultShape ==
    ResultReturned =>
        /\ result.countries_requested = Len(countries)
        /\ result.success <=> (result.errors = << >>)
        /\ ~result.success => result.countries_processed = 0
        /\ IF result.success /\
              result.countries_processed < result.countries_requested
           THEN result.warnings =
                  <<MissingWarning(result.countries_requested
                                   - result.countries_processed)>>
           ELSE result.warnings = << >>

\* C16 witness: a result for two names of which one was processed, with the
\* warning for the one missing.
C16_Witness ==
    /\ ResultReturned
    /\ result.success
    /\ result.countries_requested = 2
    /\ result.countries_processed = 1
    /\ result.warnings = <<MissingWarning(1)>>

-----------------------------------------------------------------------------
(* The three extraction implementations side by side                        *)

\* the currency sub-record of a generator as the dict it is in Python
CurrencyAsDict(c) ==
    << <<"code", c.code>>, <<"name", c.name>>, <<"symbol", c.symbol>> >>

WithCurrencyDict(x) ==
    [code          |-> x.code,
     original_name |-> x.original_name,
     common_name   |-> x.common_name,
     local_name    |-> x.local_name,
     currency      |-> CurrencyAsDict(x.currency)]

\* what each implementation returns for the record
ByImproved == WithCurrencyDict(ImprovedExtract(rec).value)
BySimple   == WithCurrencyDict(SimpleExtract(rec).value)
ByDemo     == DemoExtract(rec).value

\* one of the three implementations has returned
ExtractorReturned == epc \in {"extracted", "simple", "demo"}

\* what the implementation that ran returned
ReturnedValue ==
    IF epc = "demo" THEN xml_data.value ELSE WithCurrencyDict(xml_data.value)

\* the 'official' value of the first entry of the native-name mapping
FirstOfficial == OfficialOf(RecNative[1][1])

\* C17, as stated: for every record the three implementations return the
\* same ExtractedCountry.
C17_Equivalent ==
    ExtractorReturned =>
        /\ ReturnedValue = ByImproved
        /\ ReturnedValue = BySimple
        /\ ReturnedValue = ByDemo

\* C17, amended: the three implementations return the same code,
\* original_name and common_name.  The two generators return the same
\* currency sub-record; the demo script returns the same one when the record
\* has a currency and an empty mapping when it has none.  The demo script
\* returns the simple generator's local_name, except that it does not look
\* for a Japanese entry: with "jpn" and without "hin" it returns the first
\* entry's official value.  For a mapping whose priority codes are "hin" or
\* "jpn" the improved generator returns the simple generator's local_name,
\* except that it returns the first entry's official value when the simple
\* generator's local_name is empty.
C17_ExtractorsRelated ==
    /\ epc = "extracted" =>
          LET imp == xml_data.value
              sim == SimpleExtract(rec).value
          IN  /\ imp.code = sim.code
              /\ imp.original_name = sim.original_name
              /\ imp.common_name = sim.common_name
              /\ imp.currency = sim.currency
              /\ PriorityPresent \subseteq {1, 2} =>
                    imp.local_name =
                        IF ~Truthy(sim.local_name) /\ Truthy(RecNative)
                        THEN FirstOfficial
                        ELSE sim.local_name
    /\ epc = "demo" =>
          LET demo == xml_data.value
              sim  == SimpleExtract(rec).value
          IN  /\ demo.code = sim.code
              /\ demo.original_name = sim.original_name
              /\ demo.common_name = sim.common_name
              /\ demo.currency = IF Truthy(RecCurrencies)
                                 THEN CurrencyAsDict(sim.currency)
                                 ELSE EmptyDict
              /\ demo.local_name =
                    IF HasKey(RecNative, "jpn") /\ ~HasKey(RecNative, "hin")
                    THEN FirstOfficial
                    ELSE sim.local_name

\* C17 witness: the demo script ran on a record without currency whose
\* mapping has a Japanese entry after another one, and returned what neither
\* generator returns.
C17_Witness ==
    /\ epc = "demo"
    /\ ~Truthy(RecCurrencies)
    /\ Len(RecNative) = 2
    /\ RecNative[2][1] = "jpn"
    /\ xml_data.value.local_name = FirstOfficial
    /\ xml_data.value.local_name # BySimple.local_name
    /\ xml_data.value.currency = EmptyDict
    /\ ReturnedValue # BySimple
    /\ ReturnedValue # ByImproved
=============================================================================
